---- MODULE Spec2Model ----
(***************************************************************************)
(* The dependency extraction workflow of multi-agent-ext-deps-extractor:   *)
(* DependencyExtractionAgent (the three report parsers) and the part of    *)
(* orchestrate_workflow that consumes its result.                          *)
(*                                                                         *)
(* Strings that the code case-folds, splits or compares (package names,    *)
(* the Maven text) are sequences of one-character strings.  A JSON object  *)
(* is a record holding exactly the fields that are present, so that        *)
(* dict.get(k, default) is a test on DOMAIN.  A raw JSON text is a record  *)
(* [syntax, type, ...]: syntax = "invalid" is a text json.loads rejects,   *)
(* otherwise type names the Python type json.loads returns.                *)
(***************************************************************************)
EXTENDS Naturals, Sequences, FiniteSets, TLC

VARIABLES
    language,        \* the tag handed to DependencyExtractionAgent(...)
    self_language,   \* self.language
    report,          \* the text of the report file under .shed/
    pc,              \* where the workflow stands
    stack,           \* the active loops of traverse_deps / traverse
    dependency_map,  \* dependency_map of _parse_pipdeptree (insertion order)
    flattened,       \* flattened of _parse_npm_list / _parse_maven_tree
    upserts,         \* the calls of traverse_deps made so far (history)
    ret,             \* what the extraction stage gave orchestrate_workflow
    parser_called,   \* whether run() reached one of the _parse_* methods
    files,           \* the output files written under .shed/
    exit_status,     \* the status of sys.exit, 0 while the process runs
    started,         \* the stages orchestrate_workflow entered (history)
    finished,        \* the stages that returned without error (history)
    map_id,          \* which dict object dependency_map is bound to
    runs,            \* the calls of run() a caller has made
    first,           \* the list the first call returned, as its caller holds it
    self_dependencies, \* self.dependencies of WebResearcherAgent
    llm,             \* what the agent answers about each package
    max_workers,     \* the threads of ThreadPoolExecutor()
    batch_start,     \* i of the loop over the batches
    futures,         \* the state of the batch's calls of _research_dependency
    processed_dependencies,
    research_pc,     \* where WebResearcherAgent.run stands
    out_of_order     \* a call returned before an earlier one did (history)

workflow_vars == <<language, self_language, report, pc, stack,
                   dependency_map, flattened, upserts, ret, parser_called,
                   files, exit_status, started, finished>>

run_vars == <<runs, first>>

research_vars == <<self_dependencies, llm, max_workers, batch_start, futures,
                   processed_dependencies, research_pc, out_of_order>>

vars == <<workflow_vars, map_id, run_vars, research_vars>>

----------------------------------------------------------------------------
(* Bounds of the model *)

MaxNodes == 3

MaxTextLen == 7

\* The packages of a report of a caller that runs the extraction twice.
MaxRunNodes == 2

\* The dependencies handed to WebResearcherAgent, besides LongExample.
MaxDeps == 3

----------------------------------------------------------------------------
(* Strings *)

Ord(c) ==
    CASE c = "\n" -> 10
      [] c = " " -> 32
      [] c = "." -> 46
      [] c = "0" -> 48
      [] c = "1" -> 49
      [] c = "2" -> 50
      [] c = "A" -> 65
      [] c = "B" -> 66
      [] c = "a" -> 97
      [] c = "b" -> 98
      [] c = "k" -> 107
      [] c = "n" -> 110
      [] c = "o" -> 111
      [] c = "u" -> 117
      [] c = "w" -> 119

LowerChar(c) ==
    CASE c = "A" -> "a"
      [] c = "B" -> "b"
      [] OTHER -> c

Lower(s) == [i \in DOMAIN s |-> LowerChar(s[i])]

RECURSIVE StrLess(_, _)
StrLess(s, t) ==
    IF t = <<>> THEN FALSE
    ELSE IF s = <<>> THEN TRUE
    ELSE IF Ord(Head(s)) # Ord(Head(t)) THEN Ord(Head(s)) < Ord(Head(t))
    ELSE StrLess(Tail(s), Tail(t))

Unknown == <<"u", "n", "k", "n", "o", "w", "n">>

InSeq(x, s) == \E i \in DOMAIN s : s[i] = x

----------------------------------------------------------------------------
(* Python values *)

SUPPORTED_LANGUAGES == {"python", "javascript", "java"}

LowerTag(t) ==
    CASE t = "Python" -> "python"
      [] t = "JavaScript" -> "javascript"
      [] t = "Java" -> "java"
      [] t = "Ruby" -> "ruby"
      [] OTHER -> t

Get(d, k, default) == IF k \in DOMAIN d THEN d[k] ELSE default

NoResult == [kind |-> "none", value |-> <<>>, exc |-> ""]

Return(v) == [kind |-> "return", value |-> v, exc |-> ""]

Raise(e) == [kind |-> "raise", value |-> <<>>, exc |-> e]

----------------------------------------------------------------------------
(* _parse_pipdeptree *)

\* PackageNameOf without the fallback to the "key" field.
PackageNameOf_NoKeyFallback(dep_obj) ==
    Get(dep_obj, "package_name", Unknown)

PackageNameOf(dep_obj) ==
    IF "package_name" \in DOMAIN dep_obj /\ dep_obj.package_name # <<>>
    THEN dep_obj.package_name
    ELSE Get(dep_obj, "key", Unknown)

InstalledVersionOf(dep_obj) == Get(dep_obj, "installed_version", "unknown")

HasKey(map, key) == \E i \in DOMAIN map : map[i].key = key

\* Upsert that creates the entry with an empty installed_versions list.
Upsert_EmptyOnCreate(map, package_name, installed_version, is_transitive) ==
    LET key == Lower(package_name) IN
    IF HasKey(map, key)
    THEN [i \in DOMAIN map |->
            IF map[i].key = key
               /\ ~InSeq(installed_version, map[i].installed_versions)
            THEN [map[i] EXCEPT
                    !.installed_versions = Append(@, installed_version)]
            ELSE map[i]]
    ELSE Append(map, [key |-> key,
                      package_name |-> package_name,
                      installed_versions |-> <<>>,
                      is_transitive |-> is_transitive])

\* Upsert without the test that the version is new.
Upsert_NoMembershipTest(map, package_name, installed_version, is_transitive) ==
    LET key == Lower(package_name) IN
    IF HasKey(map, key)
    THEN [i \in DOMAIN map |->
            IF map[i].key = key
            THEN [map[i] EXCEPT
                    !.installed_versions = Append(@, installed_version)]
            ELSE map[i]]
    ELSE Append(map, [key |-> key,
                      package_name |-> package_name,
                      installed_versions |-> <<installed_version>>,
                      is_transitive |-> is_transitive])

Upsert(map, package_name, installed_version, is_transitive) ==
    LET key == Lower(package_name) IN
    IF HasKey(map, key)
    THEN [i \in DOMAIN map |->
            IF map[i].key = key
               /\ ~InSeq(installed_version, map[i].installed_versions)
            THEN [map[i] EXCEPT
                    !.installed_versions = Append(@, installed_version)]
            ELSE map[i]]
    ELSE Append(map, [key |-> key,
                      package_name |-> package_name,
                      installed_versions |-> <<installed_version>>,
                      is_transitive |-> is_transitive])

RECURSIVE Unwind(_)
Unwind(st) ==
    IF st # <<>> /\ st[Len(st)].pending = <<>>
    THEN Unwind(SubSeq(st, 1, Len(st) - 1))
    ELSE st

Frame(pending, is_transitive) ==
    [pending |-> pending, is_transitive |-> is_transitive]

CallStack(st, children, is_transitive) ==
    LET top == st[Len(st)] IN
    Unwind(Append([st EXCEPT ![Len(st)].pending = Tail(top.pending)],
                  Frame(children, is_transitive)))

RECURSIVE InsertSorted(_, _)
InsertSorted(sorted, x) ==
    IF sorted = <<>> THEN <<x>>
    ELSE IF StrLess(x.package_name, Head(sorted).package_name)
    THEN <<x>> \o sorted
    ELSE <<Head(sorted)>> \o InsertSorted(Tail(sorted), x)

RECURSIVE SortedByPackageName(_)
SortedByPackageName(values) ==
    IF values = <<>> THEN <<>>
    ELSE InsertSorted(SortedByPackageName(SubSeq(values, 1, Len(values) - 1)),
                      values[Len(values)])

PipdeptreeVisit(map, dep_obj, is_transitive) ==
    Upsert(map, PackageNameOf(dep_obj), InstalledVersionOf(dep_obj),
           is_transitive)

----------------------------------------------------------------------------
(* _parse_npm_list *)

NpmFrame(deps) == [pending |-> deps]

NpmEntry(item) ==
    [name |-> item.name, version |-> Get(item.info, "version", "unknown")]

NpmStack(st, item) ==
    LET rest == [st EXCEPT ![Len(st)].pending = Tail(@)] IN
    IF "dependencies" \in DOMAIN item.info
    THEN Unwind(Append(rest, NpmFrame(item.info.dependencies)))
    ELSE Unwind(rest)

----------------------------------------------------------------------------
(* _parse_maven_tree *)

IsSpace(c) == c \in {" ", "\n"}

RECURSIVE LStrip(_)
LStrip(s) ==
    IF s # <<>> /\ IsSpace(Head(s)) THEN LStrip(Tail(s)) ELSE s

RECURSIVE RStrip(_)
RStrip(s) ==
    IF s # <<>> /\ IsSpace(s[Len(s)])
    THEN RStrip(SubSeq(s, 1, Len(s) - 1))
    ELSE s

Strip(s) == RStrip(LStrip(s))

RECURSIVE SplitOn(_, _)
SplitOn(s, sep) ==
    IF ~InSeq(sep, s) THEN <<s>>
    ELSE LET i == CHOOSE j \in DOMAIN s :
                      s[j] = sep /\ \A k \in 1..(j - 1) : s[k] # sep
         IN <<SubSeq(s, 1, i - 1)>> \o SplitOn(SubSeq(s, i + 1, Len(s)), sep)

RECURSIVE TakeWord(_)
TakeWord(s) ==
    IF s = <<>> \/ IsSpace(Head(s)) THEN <<>>
    ELSE <<Head(s)>> \o TakeWord(Tail(s))

RECURSIVE Split(_)
Split(s) ==
    LET t == LStrip(s)
        w == TakeWord(t)
    IN IF t = <<>> THEN <<>>
       ELSE <<w>> \o Split(SubSeq(t, Len(w) + 1, Len(t)))

RECURSIVE MavenLines(_)
MavenLines(lines) ==
    IF lines = <<>> THEN <<>>
    ELSE LET parts == Split(Head(lines)) IN
         (IF Len(parts) >= 2
          THEN <<[name |-> parts[2], version |-> "unknown"]>>
          ELSE <<>>) \o MavenLines(Tail(lines))

ParseMavenTreeOf(stdout) == MavenLines(SplitOn(Strip(stdout), "\n"))

----------------------------------------------------------------------------
(* The reports the model draws from *)

Versions == {"1.0.0", "2.0.0"}

Nothing == [none |-> TRUE]

InvalidJson == [syntax |-> "invalid", type |-> "", items |-> <<>>,
                object |-> Nothing]

Json(type, items, object) ==
    [syntax |-> "json", type |-> type, items |-> items, object |-> object]

\* The objects of a pipdeptree --json-tree report, without "dependencies":
\* a package at two versions, under two spellings, a second package, and
\* objects without "package_name", without any name, without a version.
PipHeads ==
    {[key |-> <<"a">>, package_name |-> <<"a">>, installed_version |-> v] :
        v \in Versions}
    \cup {[key |-> <<"a">>, package_name |-> <<"A">>,
           installed_version |-> "1.0.0"],
          [key |-> <<"b">>, package_name |-> <<"b">>,
           installed_version |-> "1.0.0"],
          [key |-> <<"b">>, installed_version |-> "1.0.0"],
          [installed_version |-> "2.0.0"],
          [key |-> <<"a">>, package_name |-> <<"a">>]}

\* The shapes of a forest of n nodes: the depth of each node, in document
\* order.
Shapes(n) ==
    {depth \in [1..n -> 0..(n - 1)] :
        /\ n > 0 => depth[1] = 0
        /\ \A i \in 1..(n - 1) : depth[i + 1] <= depth[i] + 1}

\* The index after the subtree of node lo, among the nodes lo..hi.
SubtreeEnd(depth, lo, hi) ==
    LET ends == {j \in (lo + 1)..hi : depth[j] <= depth[lo]} IN
    IF ends = {} THEN hi + 1
    ELSE CHOOSE j \in ends : \A k \in ends : j <= k

\* The list of objects json.loads makes of the nodes lo..hi.
RECURSIVE PipForest(_, _, _, _)
PipForest(depth, heads, lo, hi) ==
    IF lo > hi THEN <<>>
    ELSE LET next == SubtreeEnd(depth, lo, hi) IN
         <<heads[lo] @@ [dependencies |->
                            PipForest(depth, heads, lo + 1, next - 1)]>>
         \o PipForest(depth, heads, next, hi)

\* A report of one package "a" at version "1.0" without dependencies, as
\* pipdeptree --json-tree writes it.
TrivialPipdeptree ==
    Json("list", <<[key |-> <<"a">>, package_name |-> <<"a">>,
                    installed_version |-> "1.0", dependencies |-> <<>>]>>,
         Nothing)

\* The same package in an object with the fields name, version, children.
TrivialNameVersionChildren ==
    Json("list", <<[name |-> <<"a">>, version |-> "1.0", children |-> <<>>]>>,
         Nothing)

PipdeptreeReport ==
    \/ report \in {InvalidJson, TrivialPipdeptree,
                   TrivialNameVersionChildren} \cup
                  {Json(t, <<>>, Nothing) : t \in {"dict", "null", "int"}}
    \/ \E n \in 0..MaxNodes :
          \E depth \in Shapes(n), heads \in [1..n -> PipHeads] :
              report = Json("list", PipForest(depth, heads, 1, n), Nothing)

NpmNames == {<<"a">>, <<"b">>}

\* The values of an npm "dependencies" mapping, without "dependencies".
NpmInfos ==
    {[version |-> v, overridden |-> FALSE] : v \in Versions}
    \cup {[overridden |-> FALSE]}

\* The keys of one JSON object differ.
SiblingsDistinct(depth, names) ==
    \A i, j \in DOMAIN depth :
        (i < j /\ depth[i] = depth[j]
               /\ \A k \in i..j : depth[k] >= depth[i])
            => names[i] # names[j]

\* The mapping, as the list of its items, json.loads makes of the nodes
\* lo..hi; a node without children has no "dependencies".
RECURSIVE NpmMapping(_, _, _, _, _)
NpmMapping(depth, names, infos, lo, hi) ==
    IF lo > hi THEN <<>>
    ELSE LET next == SubtreeEnd(depth, lo, hi) IN
         <<[name |-> names[lo],
            info |-> IF next = lo + 1 THEN infos[lo]
                     ELSE infos[lo] @@ [dependencies |->
                            NpmMapping(depth, names, infos, lo + 1,
                                       next - 1)]]>>
         \o NpmMapping(depth, names, infos, next, hi)

\* A report of one package "a" at version "1.0" without dependencies, as
\* npm list --json writes it.
TrivialNpm ==
    Json("dict", <<>>,
         [name |-> "app",
          dependencies |-> <<[name |-> <<"a">>,
                              info |-> [version |-> "1.0",
                                        overridden |-> FALSE]]>>])

NpmReport ==
    \/ report \in {InvalidJson, TrivialNpm,
                   Json("dict", <<>>, [name |-> "app"])} \cup
                  {Json(t, <<>>, Nothing) : t \in {"list", "null", "int"}}
    \/ \E n \in 0..MaxNodes :
          \E depth \in Shapes(n), names \in [1..n -> NpmNames],
             infos \in [1..n -> NpmInfos] :
              /\ SiblingsDistinct(depth, names)
              /\ report = Json("dict", <<>>,
                     [name |-> "app",
                      dependencies |->
                          NpmMapping(depth, names, infos, 1, n)])

MavenAlphabet == {"a", " ", "\n"}

TgfExample == <<"1", " ", "a", "\n", "2", " ", "b", "\n">>

MavenReport ==
    \/ report = TgfExample
    \/ \E n \in 0..MaxTextLen : report \in [1..n -> MavenAlphabet]

Languages == {"python", "javascript", "java", "Python", "ruby", "text only"}

\* The report file the command of each language leaves under .shed/.
ReportOf(l) ==
    CASE l = "python" -> PipdeptreeReport
      [] l = "javascript" -> NpmReport
      [] l = "java" -> MavenReport
      [] l = "Python" ->
            \E heads \in [1..1 -> PipHeads] :
                report = Json("list", PipForest(<<0>>, heads, 1, 1), Nothing)
      [] OTHER -> report = InvalidJson

----------------------------------------------------------------------------
(* The workflow: orchestrate_workflow *)

\* The stages of orchestrate_workflow, in the order of its statements.
StageOrder == <<"docker", "image", "detection", "extraction",
                "standardization", "research">>

\* Before any call of run().
NoFirst == [map |-> 0, value |-> <<>>]

\* orchestrate_workflow calls run() once.
OneRun ==
    /\ map_id = 0
    /\ runs = 1
    /\ first = NoFirst

\* No WebResearcherAgent is running.
NoResearch ==
    /\ self_dependencies = <<>>
    /\ llm = <<>>
    /\ max_workers = 0
    /\ batch_start = 0
    /\ futures = <<>>
    /\ processed_dependencies = <<>>
    /\ research_pc = "idle"
    /\ out_of_order = FALSE

\* language and report are what the detection and the docker command will
\* find in the repository.
Init ==
    /\ language \in Languages
    /\ ReportOf(language)
    /\ self_language = ""
    /\ pc = "docker"
    /\ started = <<"docker">>
    /\ finished = <<>>
    /\ stack = <<>>
    /\ dependency_map = <<>>
    /\ flattened = <<>>
    /\ upserts = <<>>
    /\ ret = NoResult
    /\ parser_called = FALSE
    /\ files = {}
    /\ exit_status = 0
    /\ OneRun
    /\ NoResearch

\* The stage returned: the statements of the next stage begin.
Proceed(stage, next) ==
    /\ pc' = next
    /\ finished' = Append(finished, stage)
    /\ started' = IF next = "complete" THEN started ELSE Append(started, next)
    /\ exit_status' = exit_status

\* An except clause that logs the error and goes on with the next stage.
Exit_LogOnly ==
    LET n == Len(started) IN
    /\ pc' = IF n < Len(StageOrder) THEN StageOrder[n + 1] ELSE "complete"
    /\ started' = IF n < Len(StageOrder)
                  THEN Append(started, StageOrder[n + 1]) ELSE started
    /\ finished' = finished
    /\ exit_status' = exit_status

\* logging.error(...); sys.exit(1)
Exit ==
    /\ pc' = "exit"
    /\ exit_status' = 1
    /\ UNCHANGED <<started, finished>>

\* check_docker_running: docker info.  Without a docker binary
\* subprocess.run raises FileNotFoundError, which main() turns into
\* sys.exit(1).
CheckDockerRunning ==
    /\ pc = "docker"
    /\ \E outcome \in {"running", "CalledProcessError", "FileNotFoundError"} :
          IF outcome = "running" THEN Proceed("docker", "image") ELSE Exit
    /\ UNCHANGED <<language, self_language, report, stack, dependency_map,
                   flattened, upserts, ret, parser_called, files>>
    /\ UNCHANGED <<map_id, run_vars, research_vars>>

\* check_and_build_docker_image, with build_docker_image when the image is
\* not there.
CheckAndBuildDockerImage ==
    /\ pc = "image"
    /\ \E outcome \in {"found", "built", "CalledProcessError",
                        "no Dockerfile", "build failed"} :
          IF outcome \in {"found", "built"}
          THEN Proceed("image", "detection") ELSE Exit
    /\ UNCHANGED <<language, self_language, report, stack, dependency_map,
                   flattened, upserts, ret, parser_called, files>>
    /\ UNCHANGED <<map_id, run_vars, research_vars>>

\* LanguageDetectionAgent(repo_path).run() and detection_output["language"].
DetectLanguage ==
    /\ pc = "detection"
    /\ \E outcome \in {"detected", "ValueError"} :
          IF outcome = "detected"
          THEN Proceed("detection", "extraction") ELSE Exit
    /\ UNCHANGED <<language, self_language, report, stack, dependency_map,
                   flattened, upserts, ret, parser_called, files>>
    /\ UNCHANGED <<map_id, run_vars, research_vars>>

Extracted(dependencies) ==
    /\ ret' = Return(dependencies)
    /\ Proceed("extraction", "standardization")

\* Supported without the test against SUPPORTED_LANGUAGES.
Supported_NoCheck(l) == TRUE

\* __init__: if self.language not in SUPPORTED_LANGUAGES: raise ValueError
Supported(l) == l \in SUPPORTED_LANGUAGES

\* DependencyExtractionAgent(language, ...), and main's except around it.
AgentInit ==
    /\ pc = "extraction"
    /\ self_language' = LowerTag(language)
    /\ IF Supported(self_language')
       THEN /\ pc' = "run"
            /\ UNCHANGED <<ret, exit_status, started, finished>>
       ELSE /\ ret' = Raise("ValueError")
            /\ Exit
    /\ UNCHANGED <<parser_called, language, report, stack, dependency_map,
                   flattened, upserts, files>>
    /\ UNCHANGED <<map_id, run_vars, research_vars>>

\* The docker command fails or leaves no report file.
ExtractCommandFailed ==
    /\ pc = "run"
    /\ Extracted(<<>>)
    /\ UNCHANGED <<parser_called, language, self_language, report, stack,
                   dependency_map, flattened, upserts, files>>
    /\ UNCHANGED <<map_id, run_vars, research_vars>>

\* The containers (lists and objects) a JSON text nests within each other
\* at its deepest place.
SetMax(S) == IF S = {} THEN 0 ELSE CHOOSE x \in S : \A y \in S : y <= x

RECURSIVE PipNesting(_)
PipNesting(items) ==
    1 + SetMax({1 + (IF "dependencies" \in DOMAIN items[i]
                     THEN PipNesting(items[i].dependencies)
                     ELSE IF "children" \in DOMAIN items[i]
                     THEN PipNesting(items[i].children)
                     ELSE 0) : i \in DOMAIN items})

RECURSIVE NpmNesting(_)
NpmNesting(deps) ==
    1 + SetMax({1 + (IF "dependencies" \in DOMAIN deps[i].info
                     THEN NpmNesting(deps[i].info.dependencies)
                     ELSE 0) : i \in DOMAIN deps})

JsonNesting(text) ==
    CASE text.type = "list" -> PipNesting(text.items)
      [] text.type = "dict" ->
            1 + (IF "dependencies" \in DOMAIN text.object
                 THEN NpmNesting(text.object.dependencies) ELSE 0)
      [] OTHER -> 0

\* json.loads recurses once per nested container and raises RecursionError
\* past the interpreter's recursion limit.  The limit is scaled to the
\* reports of the model: a chain of three packages is too deep.
RecursionLimit == 6

\* json.loads and the isinstance test of _parse_pipdeptree.
PipdeptreeEnvelope(deps_json) ==
    IF deps_json.syntax = "invalid" THEN "JSONDecodeError"
    ELSE IF JsonNesting(deps_json) > RecursionLimit THEN "RecursionError"
    ELSE IF deps_json.type # "list" THEN "not a list"
    ELSE "list"

\* A dependency_map kept from one call to the next (a default argument
\* or an attribute of the agent) instead of a new dict per call.
NewDependencyMap_Kept(id, entries) == [id |-> id, entries |-> entries]

\* dependency_map = {}: a new, empty dict object.
NewDependencyMap(id, entries) == [id |-> id + 1, entries |-> <<>>]

ParsePipdeptree ==
    /\ pc = "run"
    /\ parser_called' = TRUE
    /\ self_language = "python"
    /\ CASE PipdeptreeEnvelope(report) = "list" ->
              /\ dependency_map' =
                     NewDependencyMap(map_id, dependency_map).entries
              /\ map_id' = NewDependencyMap(map_id, dependency_map).id
              /\ stack' = Unwind(<<Frame(report.items, FALSE)>>)
              /\ pc' = "traverse_deps"
              /\ UNCHANGED <<ret, exit_status, started, finished>>
         [] PipdeptreeEnvelope(report) = "RecursionError" ->
              /\ ret' = Raise("RecursionError")
              /\ Exit
              /\ UNCHANGED <<stack, dependency_map, map_id>>
         [] OTHER ->
              /\ Extracted(<<>>)
              /\ UNCHANGED <<stack, dependency_map, map_id>>
    /\ UNCHANGED <<language, self_language, report, flattened, upserts,
                   files>>
    /\ UNCHANGED <<run_vars, research_vars>>

\* One call of traverse_deps, up to the calls it makes for the children.
TraverseDeps ==
    /\ pc = "traverse_deps"
    /\ stack # <<>>
    /\ LET top == stack[Len(stack)]
           dep_obj == Head(top.pending)
       IN /\ dependency_map' =
                 PipdeptreeVisit(dependency_map, dep_obj, top.is_transitive)
          /\ upserts' = Append(upserts,
                 [package_name |-> PackageNameOf(dep_obj),
                  installed_version |-> InstalledVersionOf(dep_obj),
                  is_transitive |-> top.is_transitive])
          /\ stack' = CallStack(stack, Get(dep_obj, "dependencies", <<>>),
                                TRUE)
    /\ UNCHANGED <<parser_called, language, self_language, report, pc,
                   flattened, ret, files, exit_status, started, finished>>
    /\ UNCHANGED <<map_id, run_vars, research_vars>>

PipdeptreeResult(map) == SortedByPackageName(map)

PipdeptreeReturn ==
    /\ pc = "traverse_deps"
    /\ stack = <<>>
    /\ Extracted(PipdeptreeResult(dependency_map))
    /\ UNCHANGED <<parser_called, language, self_language, report, stack,
                   dependency_map, flattened, upserts, files>>
    /\ UNCHANGED <<map_id, run_vars, research_vars>>

\* json.loads and the test "dependencies" in data of _parse_npm_list.
NpmEnvelope(stdout) ==
    IF stdout.syntax = "invalid" THEN "JSONDecodeError"
    ELSE IF JsonNesting(stdout) > RecursionLimit THEN "RecursionError"
    ELSE IF stdout.type \in {"null", "int"} THEN "TypeError"
    ELSE IF stdout.type = "dict" /\ "dependencies" \in DOMAIN stdout.object
    THEN "dependencies"
    ELSE "no dependencies"

ParseNpmList ==
    /\ pc = "run"
    /\ parser_called' = TRUE
    /\ self_language = "javascript"
    /\ flattened' = <<>>
    /\ CASE NpmEnvelope(report) = "dependencies" ->
              /\ stack' = Unwind(<<NpmFrame(report.object.dependencies)>>)
              /\ pc' = "traverse"
              /\ UNCHANGED <<ret, exit_status, started, finished>>
         [] NpmEnvelope(report) \in {"TypeError", "RecursionError"} ->
              /\ ret' = Raise(NpmEnvelope(report))
              /\ Exit
              /\ UNCHANGED stack
         [] OTHER ->
              /\ Extracted(<<>>)
              /\ UNCHANGED stack
    /\ UNCHANGED <<language, self_language, report, dependency_map, upserts,
                   files>>
    /\ UNCHANGED <<map_id, run_vars, research_vars>>

\* One iteration of the loop of traverse, up to the call it makes.
Traverse ==
    /\ pc = "traverse"
    /\ stack # <<>>
    /\ LET item == Head(stack[Len(stack)].pending)
       IN /\ flattened' = Append(flattened, NpmEntry(item))
          /\ stack' = NpmStack(stack, item)
    /\ UNCHANGED <<parser_called, language, self_language, report, pc,
                   dependency_map, upserts, ret, files, exit_status, started,
                   finished>>
    /\ UNCHANGED <<map_id, run_vars, research_vars>>

NpmListReturn ==
    /\ pc = "traverse"
    /\ stack = <<>>
    /\ Extracted(flattened)
    /\ UNCHANGED <<parser_called, language, self_language, report, stack,
                   dependency_map, flattened, upserts, files>>
    /\ UNCHANGED <<map_id, run_vars, research_vars>>

ParseMavenTree ==
    /\ pc = "run"
    /\ parser_called' = TRUE
    /\ self_language = "java"
    /\ flattened' = ParseMavenTreeOf(report)
    /\ Extracted(flattened')
    /\ UNCHANGED <<language, self_language, report, stack, dependency_map,
                   upserts, files>>
    /\ UNCHANGED <<map_id, run_vars, research_vars>>

\* StandardizedOutputAgent(...).run(): the LLM answers and the file is written.
Standardization ==
    /\ pc = "standardization"
    /\ files' = files \cup {"dependencies.json"}
    /\ Proceed("standardization", "research")
    /\ UNCHANGED <<parser_called, language, self_language, report, stack,
                   dependency_map, flattened, upserts, ret>>
    /\ UNCHANGED <<map_id, run_vars, research_vars>>

\* The LLM client or the write raises.
StandardizationFailed ==
    /\ pc = "standardization"
    /\ Exit
    /\ UNCHANGED <<parser_called, language, self_language, report, stack,
                   dependency_map, flattened, upserts, ret, files>>
    /\ UNCHANGED <<map_id, run_vars, research_vars>>

ResearchFields == {"key", "package_name", "installed_versions",
                   "is_transitive"}

\* WebResearcherAgent.run subscripts every dependency with these fields.
Researchable(dependencies) ==
    \A i \in DOMAIN dependencies :
        ResearchFields \subseteq DOMAIN dependencies[i]

WebResearch ==
    /\ pc = "research"
    /\ IF Researchable(ret.value)
       THEN /\ files' = files \cup {"open_source_dependencies.json"}
            /\ Proceed("research", "complete")
       ELSE /\ Exit
            /\ UNCHANGED files
    /\ UNCHANGED <<parser_called, language, self_language, report, stack,
                   dependency_map, flattened, upserts, ret>>
    /\ UNCHANGED <<map_id, run_vars, research_vars>>

\* The LLM client, the search tool or the write raises.
WebResearchFailed ==
    /\ pc = "research"
    /\ Exit
    /\ UNCHANGED <<parser_called, language, self_language, report, stack,
                   dependency_map, flattened, upserts, ret, files>>
    /\ UNCHANGED <<map_id, run_vars, research_vars>>

Next ==
    \/ CheckDockerRunning
    \/ CheckAndBuildDockerImage
    \/ DetectLanguage
    \/ AgentInit
    \/ ExtractCommandFailed
    \/ ParsePipdeptree
    \/ TraverseDeps
    \/ PipdeptreeReturn
    \/ ParseNpmList
    \/ Traverse
    \/ NpmListReturn
    \/ ParseMavenTree
    \/ Standardization
    \/ StandardizationFailed
    \/ WebResearch
    \/ WebResearchFailed

Spec == Init /\ [][Next]_vars

----------------------------------------------------------------------------
(* A caller that runs the python extraction twice, on a report A and then  *)
(* on a report B, with the same agent or with a new one                    *)

RunHeads ==
    {[key |-> <<"a">>, package_name |-> <<"a">>, installed_version |-> v] :
        v \in Versions}
    \cup {[key |-> <<"b">>, package_name |-> <<"b">>,
           installed_version |-> "1.0.0"]}

IsRunReport(r) ==
    \/ r = InvalidJson
    \/ \E n \in 0..MaxRunNodes :
          \E depth \in Shapes(n), heads \in [1..n -> RunHeads] :
              r = Json("list", PipForest(depth, heads, 1, n), Nothing)

InitRuns ==
    /\ language = "python"
    /\ IsRunReport(report)
    /\ self_language = ""
    /\ pc = "extraction"
    /\ started = <<"extraction">>
    /\ finished = <<>>
    /\ stack = <<>>
    /\ dependency_map = <<>>
    /\ flattened = <<>>
    /\ upserts = <<>>
    /\ ret = NoResult
    /\ parser_called = FALSE
    /\ files = {}
    /\ exit_status = 0
    /\ OneRun
    /\ NoResearch

\* The caller keeps the list of the first call and calls run() again: on
\* the same agent object, or on a new DependencyExtractionAgent.
RunAgain ==
    /\ runs = 1
    /\ pc = "standardization"
    /\ runs' = 2
    /\ first' = [map |-> map_id, value |-> ret.value]
    /\ IsRunReport(report')
    /\ \E same_agent \in BOOLEAN :
          IF same_agent
          THEN pc' = "run" /\ self_language' = self_language
          ELSE pc' = "extraction" /\ self_language' = ""
    /\ ret' = NoResult
    /\ parser_called' = FALSE
    /\ stack' = <<>>
    /\ upserts' = <<>>
    /\ started' = <<"extraction">>
    /\ finished' = <<>>
    /\ UNCHANGED <<language, dependency_map, map_id, flattened, files,
                   exit_status, research_vars>>

NextRuns ==
    \/ AgentInit
    \/ ParsePipdeptree
    \/ TraverseDeps
    \/ PipdeptreeReturn
    \/ RunAgain

SpecRuns == InitRuns /\ [][NextRuns]_vars

----------------------------------------------------------------------------
(* WebResearcherAgent.run: the batches, the thread pool of executor.map    *)
(* and the records built from its results                                  *)

batch_size == 10

EntryA ==
    [key |-> <<"a">>, package_name |-> <<"a">>,
     installed_versions |-> <<"1.0.0">>, is_transitive |-> FALSE]

EntryB ==
    [key |-> <<"b">>, package_name |-> <<"B">>,
     installed_versions |-> <<"1.0.0", "2.0.0">>, is_transitive |-> TRUE]

\* An entry as _parse_npm_list and _parse_maven_tree return it.
NameVersionEntry == [name |-> <<"a">>, version |-> "1.0.0"]

ResearchEntries == {EntryA, EntryB, NameVersionEntry}

\* One dependency more than a batch holds, each with a name of its own.
LongExample ==
    [i \in 1..(batch_size + 1) |->
        [key |-> [j \in 1..i |-> "a"], package_name |-> [j \in 1..i |-> "a"],
         installed_versions |-> <<"1.0.0">>, is_transitive |-> i > 1]]

NamesOf(deps) ==
    {deps[i].package_name :
        i \in {j \in DOMAIN deps : "package_name" \in DOMAIN deps[j]}}

\* What self.agent.run does for a package: it answers with a JSON object
\* that has both fields, with a JSON object that has neither, with text
\* that is no JSON, with JSON that is no object, or it raises.
Answers == {"json", "other fields", "not json", "list", "raise"}

DefaultLicense == [name |-> "Unknown", version |-> "Unknown", url |-> <<>>]

\* _research_dependency(package_name), given the agent's answer.
ResearchDependency(package_name, answer) ==
    CASE answer = "json" ->
            [type |-> "dict",
             value |-> [is_open_source |-> TRUE,
                        license |-> [name |-> "MIT", url |-> package_name]]]
      [] answer = "other fields" ->
            [type |-> "dict", value |-> [error |-> "not found"]]
      [] answer = "not json" ->
            [type |-> "dict",
             value |-> [is_open_source |-> FALSE,
                        license |-> [name |-> "AI failed to find the license",
                                     url |-> <<>>]]]
      [] answer = "list" -> [type |-> "list", value |-> Nothing]

InitResearch ==
    /\ \/ \E n \in 0..MaxDeps :
             /\ self_dependencies \in [1..n -> ResearchEntries]
             /\ llm \in [NamesOf(self_dependencies) -> Answers]
       \/ /\ self_dependencies = LongExample
          /\ \E last \in {"json", "raise"} :
                llm = [name \in NamesOf(LongExample) |->
                          IF Len(name) = Len(LongExample) THEN last
                          ELSE "json"]
    /\ max_workers \in {5, 32}
    /\ batch_start = 0
    /\ futures = <<>>
    /\ processed_dependencies = <<>>
    /\ research_pc = "batch"
    /\ out_of_order = FALSE
    /\ language = "python"
    /\ self_language = "python"
    /\ report = InvalidJson
    /\ pc = "research"
    /\ started = StageOrder
    /\ finished = SubSeq(StageOrder, 1, Len(StageOrder) - 1)
    /\ stack = <<>>
    /\ dependency_map = <<>>
    /\ flattened = <<>>
    /\ upserts = <<>>
    /\ ret = Return(self_dependencies)
    /\ parser_called = FALSE
    /\ files = {"dependencies.json"}
    /\ exit_status = 0
    /\ OneRun

\* self.dependencies[i:i + batch_size]
Batch(deps, i) ==
    SubSeq(deps, i + 1, IF i + batch_size < Len(deps) THEN i + batch_size
                        ELSE Len(deps))

\* The loop takes the next batch; the list of the names is built and
\* executor.map submits one call of _research_dependency per name.
StartBatch ==
    /\ research_pc = "batch"
    /\ batch_start < Len(self_dependencies)
    /\ LET batch == Batch(self_dependencies, batch_start) IN
       IF \A k \in DOMAIN batch : "package_name" \in DOMAIN batch[k]
       THEN /\ futures' = [k \in DOMAIN batch |-> "pending"]
            /\ research_pc' = "map"
       ELSE /\ futures' = futures
            /\ research_pc' = "KeyError"
    /\ UNCHANGED <<self_dependencies, llm, max_workers, batch_start,
                   processed_dependencies, out_of_order>>
    /\ UNCHANGED <<workflow_vars, map_id, run_vars>>

\* A worker thread takes the oldest work item off the queue.
WorkerTakes ==
    /\ research_pc = "map"
    /\ Cardinality({k \in DOMAIN futures : futures[k] = "running"})
          < max_workers
    /\ \E k \in DOMAIN futures :
          /\ futures[k] = "pending"
          /\ \A j \in 1..(k - 1) : futures[j] # "pending"
          /\ futures' = [futures EXCEPT ![k] = "running"]
    /\ UNCHANGED <<self_dependencies, llm, max_workers, batch_start,
                   processed_dependencies, research_pc, out_of_order>>
    /\ UNCHANGED <<workflow_vars, map_id, run_vars>>

\* A call of _research_dependency ends: it returns or the agent raised.
WorkerFinishes ==
    /\ research_pc = "map"
    /\ \E k \in DOMAIN futures :
          /\ futures[k] = "running"
          /\ LET dep == Batch(self_dependencies, batch_start)[k] IN
             futures' = [futures EXCEPT ![k] =
                            IF llm[dep.package_name] = "raise"
                            THEN "raised" ELSE "returned"]
          /\ out_of_order' =
                (out_of_order
                 \/ \E j \in 1..(k - 1) : futures[j] \in {"pending", "running"})
    /\ UNCHANGED <<self_dependencies, llm, max_workers, batch_start,
                   processed_dependencies, research_pc>>
    /\ UNCHANGED <<workflow_vars, map_id, run_vars>>

\* The results of executor.map, in the order of the names it was given.
Results(batch) ==
    [k \in DOMAIN batch |->
        ResearchDependency(batch[k].package_name, llm[batch[k].package_name])]

Zipped_WholeList(deps, i, results) ==
    [k \in 1..Len(results) |-> [dep |-> deps[k], research_data |-> results[k]]]

\* zip(batch, results)
Zipped(deps, i, results) ==
    [k \in 1..Len(results) |->
        [dep |-> Batch(deps, i)[k], research_data |-> results[k]]]

ResearchedFields == {"key", "package_name", "installed_versions", "is_transitive"}

\* The first of a set of places of a list.
SetMin(S) == CHOOSE x \in S : \A y \in S : x <= y

\* The dict appended for one pair of zip(batch, results).
ProcessedRecord(dep, research_data) ==
    [key |-> dep.key,
     package_name |-> dep.package_name,
     installed_versions |-> dep.installed_versions,
     is_transitive |-> dep.is_transitive,
     is_open_source |-> Get(research_data, "is_open_source", FALSE),
     license |-> Get(research_data, "license", DefaultLicense)]

\* What building the dict of one pair raises, if anything.
RecordRaises(pair) ==
    IF ~(ResearchedFields \subseteq DOMAIN pair.dep) THEN "KeyError"
    ELSE IF pair.research_data.type # "dict" THEN "AttributeError"
    ELSE "no"

\* Every call of the batch has returned: list(executor.map(...)) is
\* complete and the loop over zip(batch, results) appends the records, up
\* to the first pair that raises.
CollectBatch ==
    /\ research_pc = "map"
    /\ \A k \in DOMAIN futures : futures[k] = "returned"
    /\ LET pairs == Zipped(self_dependencies, batch_start,
                        Results(Batch(self_dependencies, batch_start)))
           bad == {k \in DOMAIN pairs : RecordRaises(pairs[k]) # "no"}
           good == IF bad = {} THEN Len(pairs) ELSE SetMin(bad) - 1
       IN
       /\ processed_dependencies' =
             processed_dependencies \o
                [k \in 1..good |->
                    ProcessedRecord(pairs[k].dep, pairs[k].research_data.value)]
       /\ IF bad = {}
          THEN /\ batch_start' = batch_start + batch_size
               /\ research_pc' = "batch"
          ELSE /\ batch_start' = batch_start
               /\ research_pc' = RecordRaises(pairs[SetMin(bad)])
    /\ futures' = <<>>
    /\ UNCHANGED <<self_dependencies, llm, max_workers, out_of_order>>
    /\ UNCHANGED <<workflow_vars, map_id, run_vars>>

\* The iterator of executor.map reaches, in input order, a call that
\* raised: result() raises in run, the calls not yet started are cancelled.
MapRaises ==
    /\ research_pc = "map"
    /\ \E k \in DOMAIN futures :
          /\ futures[k] = "raised"
          /\ \A j \in 1..(k - 1) : futures[j] = "returned"
    /\ futures' = [k \in DOMAIN futures |->
                      IF futures[k] = "pending" THEN "cancelled"
                      ELSE futures[k]]
    /\ research_pc' = "Exception"
    /\ UNCHANGED <<self_dependencies, llm, max_workers, batch_start,
                   processed_dependencies, out_of_order>>
    /\ UNCHANGED <<workflow_vars, map_id, run_vars>>

\* No batch is left: run returns processed_dependencies.
ReturnProcessed ==
    /\ research_pc = "batch"
    /\ batch_start >= Len(self_dependencies)
    /\ research_pc' = "returned"
    /\ UNCHANGED <<self_dependencies, llm, max_workers, batch_start, futures,
                   processed_dependencies, out_of_order>>
    /\ UNCHANGED <<workflow_vars, map_id, run_vars>>

NextResearch ==
    \/ StartBatch
    \/ WorkerTakes
    \/ WorkerFinishes
    \/ CollectBatch
    \/ MapRaises
    \/ ReturnProcessed

SpecResearch == InitResearch /\ [][NextResearch]_vars

----------------------------------------------------------------------------
(* What the claims speak of *)

\* The parser ran on the report and returned a list to its caller.
ParserReturned == parser_called /\ ret.kind = "return"

\* The normalized key of an output entry.
KeyOfEntry(e) == IF "key" \in DOMAIN e THEN e.key ELSE Lower(e.name)

\* The report is a tree report of its ecosystem, of any depth.
AcyclicTree ==
    \/ self_language = "python" /\ report.syntax = "json"
                                /\ report.type = "list"
    \/ self_language = "javascript" /\ report.syntax = "json"
                                    /\ report.type = "dict"

\* The report is a tree report whose envelope the parser accepts.
TreeReport == AcyclicTree /\ JsonNesting(report) <= RecursionLimit

\* The report cannot be parsed under the envelope of its ecosystem.
Malformed ==
    \/ self_language = "python" /\ (report.syntax = "invalid"
                                    \/ report.type # "list")
    \/ self_language = "javascript" /\ (report.syntax = "invalid"
                                        \/ report.type # "dict")

\* The occurrences of packages in a pipdeptree forest, in document order:
\* the name and version the report gives (or the fallbacks), and whether
\* the occurrence lies below a top-level root.
RECURSIVE PipOccurrences(_, _)
PipOccurrences(forest, nested) ==
    IF forest = <<>> THEN <<>>
    ELSE LET n == Head(forest) IN
         <<[name |-> IF "package_name" \in DOMAIN n THEN n.package_name
                     ELSE IF "key" \in DOMAIN n THEN n.key ELSE Unknown,
            version |-> IF "installed_version" \in DOMAIN n
                        THEN n.installed_version ELSE "unknown",
            nested |-> nested]>>
         \o PipOccurrences(Get(n, "dependencies", <<>>), TRUE)
         \o PipOccurrences(Tail(forest), nested)

RECURSIVE NpmOccurrences(_, _)
NpmOccurrences(deps, nested) ==
    IF deps = <<>> THEN <<>>
    ELSE LET n == Head(deps) IN
         <<[name |-> n.name,
            version |-> IF "version" \in DOMAIN n.info
                        THEN n.info.version ELSE "unknown",
            nested |-> nested]>>
         \o (IF "dependencies" \in DOMAIN n.info
             THEN NpmOccurrences(n.info.dependencies, TRUE) ELSE <<>>)
         \o NpmOccurrences(Tail(deps), nested)

Occurrences ==
    IF self_language = "python" THEN PipOccurrences(report.items, FALSE)
    ELSE IF "dependencies" \in DOMAIN report.object
    THEN NpmOccurrences(report.object.dependencies, FALSE)
    ELSE <<>>

Range(s) == {s[i] : i \in DOMAIN s}

NoRepeats(s) == \A i, j \in DOMAIN s : i # j => s[i] # s[j]

----------------------------------------------------------------------------
(* C1: the list a parser returns holds at most one entry per normalized    *)
(* (lower-cased) package key, for python, javascript and java alike.       *)

C1_KeyUnique ==
    ParserReturned =>
        \A i, j \in DOMAIN ret.value :
            i # j => KeyOfEntry(ret.value[i]) # KeyOfEntry(ret.value[j])

(* C2: in the output of a tree report the entry of a package is marked     *)
(* transitive exactly when the package occurs somewhere below a top-level  *)
(* root, whatever the order of its occurrences.  Stated for pipdeptree.    *)

C2_TransitiveIffNested ==
    ParserReturned /\ self_language = "python" /\ TreeReport =>
        \A i \in DOMAIN ret.value :
            ret.value[i].is_transitive =
                (\E o \in Range(Occurrences) :
                    Lower(o.name) = ret.value[i].key /\ o.nested)

(* C3: in the output of a tree report, every package key of the report has *)
(* an entry whose installed_versions are exactly the distinct versions the *)
(* report gives for that key, none repeated.                               *)

C3_VersionsOf(e, occs) ==
    /\ "installed_versions" \in DOMAIN e
    /\ NoRepeats(e.installed_versions)
    /\ Range(e.installed_versions) =
          {o.version : o \in {x \in Range(occs) :
                                 Lower(x.name) = KeyOfEntry(e)}}

C3_VersionsExact ==
    ParserReturned /\ TreeReport =>
        /\ \A o \in Range(Occurrences) :
              \E i \in DOMAIN ret.value :
                  KeyOfEntry(ret.value[i]) = Lower(o.name)
        /\ \A i \in DOMAIN ret.value :
              C3_VersionsOf(ret.value[i], Occurrences)

\* C3 restricted to pipdeptree reports, where the code merges by key.
C3_PipdeptreeVersionsExact ==
    self_language = "python" => C3_VersionsExact

(* C4: a language outside python, javascript, java makes the extraction    *)
(* stage raise; no list is returned, the process exits with status 1 and   *)
(* neither the standardization nor the research stage writes a file.       *)

C4_UnsupportedFails ==
    LowerTag(language) \notin {"python", "javascript", "java"}
    /\ InSeq("extraction", started) /\ pc # "extraction" =>
        /\ ret.kind = "raise"
        /\ pc = "exit"
        /\ exit_status = 1
        /\ files = {}

C4_Witness ==
    /\ language = "ruby"
    /\ pc = "exit"
    /\ ret = Raise("ValueError")

(* C5: a report that cannot be parsed under its ecosystem's envelope makes *)
(* the parser return an empty list; no exception leaves the parser.        *)

C5_MalformedGivesEmpty ==
    parser_called /\ Malformed => ret = Return(<<>>)

(* C6: a node without a version or without a name is no error: the version *)
(* becomes "unknown", the name the best name field present (or "unknown"), *)
(* and every node of the report, before and after it, is still flattened   *)
(* into the output.  Stated for the reports json.loads accepts; what a     *)
(* deeper nesting does is C17.                                             *)

C6_Flattened(e, o) ==
    IF "key" \in DOMAIN e
    THEN e.key = Lower(o.name) /\ InSeq(o.version, e.installed_versions)
    ELSE e.name = o.name /\ e.version = o.version

C6_OmissionsAreNoErrors ==
    parser_called /\ TreeReport =>
        /\ ret.kind # "raise"
        /\ ret.kind = "return" =>
              \A o \in Range(Occurrences) :
                  \E i \in DOMAIN ret.value : C6_Flattened(ret.value[i], o)

C6_Witness ==
    /\ ParserReturned
    /\ self_language = "python"
    /\ TreeReport
    /\ Len(report.items) = 3
    /\ "package_name" \notin DOMAIN report.items[1]
    /\ "key" \in DOMAIN report.items[1]
    /\ "installed_version" \notin DOMAIN report.items[2]
    /\ Len(ret.value) = 3

(* C7: what a run on a malformed report gives its caller differs from what *)
(* a run on a well-formed report without dependencies gives it.            *)

EmptyRunResult == Return(<<>>)

\* A well-formed report without dependencies yields EmptyRunResult.
C7_EmptyRunYieldsEmptyRunResult ==
    parser_called /\ TreeReport /\ Occurrences = <<>> /\ ret.kind # "none"
        => ret = EmptyRunResult

C7_MalformedDistinguishable ==
    parser_called /\ Malformed /\ ret.kind # "none" => ret # EmptyRunResult

(* C8: every entry a parser returns, for python, javascript and java,      *)
(* carries key, package_name, installed_versions and is_transitive (a      *)
(* boolean), the fields the research stage reads.                          *)

C8_CanonicalFields ==
    ParserReturned =>
        \A i \in DOMAIN ret.value :
            /\ {"key", "package_name", "installed_versions", "is_transitive"}
                  \subseteq DOMAIN ret.value[i]
            /\ ret.value[i].is_transitive \in BOOLEAN

(* C9: for a java report, the records with at least two whitespace-        *)
(* separated tokens yield, one for one, entries named by the second token  *)
(* with installed_versions = ["unknown"] and is_transitive = false.        *)

C9_Records ==
    LET lines == SplitOn(Strip(report), "\n")
        IsRecord(i) == Len(Split(lines[i])) >= 2
    IN [i \in {j \in DOMAIN lines : IsRecord(j)} |-> Split(lines[i])]

C9_EdgeListEntries ==
    ParserReturned /\ self_language = "java" =>
        /\ Len(ret.value) = Cardinality(DOMAIN C9_Records)
        /\ \A r \in DOMAIN C9_Records :
              \E i \in DOMAIN ret.value :
                  /\ {"package_name", "installed_versions", "is_transitive"}
                        \subseteq DOMAIN ret.value[i]
                  /\ ret.value[i].package_name = C9_Records[r][2]
                  /\ ret.value[i].installed_versions = <<"unknown">>
                  /\ ret.value[i].is_transitive = FALSE

(* C10: upserting again an occurrence that was upserted before leaves the  *)
(* canonical map as it is: no version is added twice and is_transitive     *)
(* does not change.                                                        *)

C10_RepeatedUpsertChangesNothing ==
    /\ \A i \in DOMAIN upserts :
          Upsert(dependency_map, upserts[i].package_name,
                 upserts[i].installed_version, upserts[i].is_transitive)
             = dependency_map
    /\ \A i \in DOMAIN dependency_map :
          NoRepeats(dependency_map[i].installed_versions)

C10_Witness ==
    \E k \in DOMAIN dependency_map, i \in DOMAIN upserts :
        /\ Lower(upserts[i].package_name) = dependency_map[k].key
        /\ dependency_map[k].is_transitive
        /\ ~upserts[i].is_transitive
        /\ Len(dependency_map[k].installed_versions) = 2

----------------------------------------------------------------------------
\* The characters of a version string, for Python's comparison of str.
VersionText(v) ==
    CASE v = "1.0" -> <<"1", ".", "0">>
      [] v = "1.0.0" -> <<"1", ".", "0", ".", "0">>
      [] v = "2.0.0" -> <<"2", ".", "0", ".", "0">>
      [] v = "unknown" -> Unknown

VersionLess(v, w) == StrLess(VersionText(v), VersionText(w))

\* The name an output entry carries.
NameOfEntry(e) == IF "package_name" \in DOMAIN e THEN e.package_name ELSE e.name

(* C11: in the list _parse_pipdeptree returns, the installed_versions of   *)
(* every entry are in ascending order (the order sorted() gives strings),  *)
(* whatever the order in which the traversal met the versions.             *)

C11_VersionsSorted ==
    ParserReturned /\ self_language = "python" =>
        \A i \in DOMAIN ret.value :
            LET versions == ret.value[i].installed_versions IN
            \A j \in 1..(Len(versions) - 1) :
                ~VersionLess(versions[j + 1], versions[j])

(* C12: the list a parser returns, for python, javascript and java, is     *)
(* ordered by the name of the entries: of two adjacent entries the earlier *)
(* one's name is not greater than the later one's.                         *)

C12_OrderedByPackageName ==
    ParserReturned =>
        \A i \in 1..(Len(ret.value) - 1) :
            ~StrLess(NameOfEntry(ret.value[i + 1]), NameOfEntry(ret.value[i]))

\* C12 restricted to pipdeptree reports, whose result the code sorts.
C12_PipdeptreeOrdered ==
    self_language = "python" => C12_OrderedByPackageName

(* C13: a tree report of one top-level node with name "a", version "1.0"   *)
(* and no children yields exactly one entry: key "a", package_name "a",    *)
(* installed_versions ["1.0"], is_transitive false.                        *)

C13_Entry ==
    [key |-> <<"a">>, package_name |-> <<"a">>,
     installed_versions |-> <<"1.0">>, is_transitive |-> FALSE]

C13_SingleNodeRoundTrip ==
    ParserReturned /\ TreeReport
                   /\ report \in {TrivialPipdeptree, TrivialNpm,
                                  TrivialNameVersionChildren} =>
        ret.value = <<C13_Entry>>

\* C13 for the report in pipdeptree's own field names.
C13_PipdeptreeRoundTrip ==
    ParserReturned /\ self_language = "python"
                   /\ report = TrivialPipdeptree =>
        ret.value = <<C13_Entry>>

(* C15: in every state of dependency_map, while traverse_deps runs and     *)
(* after it, and in the list returned from it, the installed_versions of   *)
(* every entry is a non-empty list.                                        *)

C15_VersionsNonEmpty ==
    /\ \A i \in DOMAIN dependency_map :
          dependency_map[i].installed_versions # <<>>
    /\ ParserReturned /\ self_language = "python" =>
          \A i \in DOMAIN ret.value :
              ret.value[i].installed_versions # <<>>

C15_Witness ==
    /\ pc = "traverse_deps"
    /\ stack # <<>>
    /\ \E i \in DOMAIN dependency_map :
          Len(dependency_map[i].installed_versions) = 2

(* C17: for a tree report of any nesting depth the flattener ends with the *)
(* complete result: it raises nothing, and the list it returns holds every *)
(* node of the report.                                                     *)

C17_AnyDepthFlattened ==
    parser_called /\ AcyclicTree =>
        /\ ret.kind # "raise"
        /\ ret.kind = "return" =>
              \A o \in Range(Occurrences) :
                  \E i \in DOMAIN ret.value : C6_Flattened(ret.value[i], o)

(* C18: orchestrate_workflow enters its six stages in the order Docker     *)
(* check, image check/build, language detection, dependency extraction,    *)
(* standardization, web research; a stage is entered only when every       *)
(* earlier stage returned without error; a stage that fails ends the       *)
(* process with exit status 1 and no later stage is entered; "Workflow     *)
(* complete" is reached only when all six stages returned without error.   *)

IsPrefix(s, t) == Len(s) <= Len(t) /\ s = SubSeq(t, 1, Len(s))

\* The stage whose statements run at pc.
StageOf(at) ==
    IF at \in {"run", "traverse_deps", "traverse"} THEN "extraction" ELSE at

RECURSIVE UpsertAll(_, _)
UpsertAll(occs, map) ==
    IF occs = <<>> THEN map
    ELSE UpsertAll(Tail(occs), Upsert(map, Head(occs).name,
                                      Head(occs).version, Head(occs).nested))

\* What a call on the report alone returns: the upserts of its occurrences
\* into an empty map, sorted.
AloneResult(r) ==
    IF r.syntax = "json" /\ r.type = "list"
    THEN SortedByPackageName(UpsertAll(PipOccurrences(r.items, FALSE), <<>>))
    ELSE <<>>

\* The list of the first call as its caller reads it now: its elements are
\* the entries of the dict that call built.
FirstListNow ==
    IF first.map = map_id
    THEN [i \in DOMAIN first.value |->
            dependency_map[CHOOSE j \in DOMAIN dependency_map :
                              dependency_map[j].key = first.value[i].key]]
    ELSE first.value

\* A single call returns AloneResult of its report.
C16_OneRunIsAlone ==
    runs = 1 /\ ParserReturned /\ self_language = "python" =>
        ret.value = AloneResult(report)

C16_FreshMapPerRun ==
    runs = 2 =>
        /\ FirstListNow = first.value
        /\ ParserReturned => ret.value = AloneResult(report)

C16_Witness ==
    /\ runs = 2
    /\ ParserReturned
    /\ \E i \in DOMAIN first.value, j \in DOMAIN ret.value :
          /\ first.value[i].key = ret.value[j].key
          /\ first.value[i].installed_versions
                # ret.value[j].installed_versions
          /\ first.value[i].is_transitive # ret.value[j].is_transitive

\* The research of the dependency at place i of self.dependencies.
ResearchOf(i) ==
    ResearchDependency(self_dependencies[i].package_name,
                       llm[self_dependencies[i].package_name]).value

\* Record i is built from dependency i and from the research of its
\* package_name.
RecordMatches(i) ==
    LET dep == self_dependencies[i]
        rec == processed_dependencies[i]
    IN /\ rec.key = dep.key
       /\ rec.package_name = dep.package_name
       /\ rec.installed_versions = dep.installed_versions
       /\ rec.is_transitive = dep.is_transitive
       /\ rec.is_open_source = Get(ResearchOf(i), "is_open_source", FALSE)
       /\ rec.license = Get(ResearchOf(i), "license", DefaultLicense)

\* C19: when WebResearcherAgent.run returns, its list has one record per
\* input dependency, in the order of the input, and record i carries the
\* four fields of input i and the research obtained for input i's
\* package_name, whatever the order in which the calls of the thread pool
\* ended; while the run goes on, the records built so far are those of the
\* first inputs, in order.
C19_RecordsInInputOrder ==
    /\ research_pc \in {"batch", "map", "returned"} =>
          /\ Len(processed_dependencies) <= Len(self_dependencies)
          /\ \A i \in DOMAIN processed_dependencies : RecordMatches(i)
    /\ research_pc = "returned" =>
          Len(processed_dependencies) = Len(self_dependencies)

\* A run of two batches has returned, and some call ended before a call
\* submitted earlier.
C19_Witness ==
    /\ research_pc = "returned"
    /\ out_of_order
    /\ Len(processed_dependencies) > batch_size

====
